---- MODULE Spec2Model ----
(***************************************************************************)
(* Startup resolution pipeline of the Hugging Face model server:           *)
(* python/huggingfaceserver/huggingfaceserver/__main__.py.                 *)
(*                                                                         *)
(* One run of the program is modelled: the parsed command line (args) and  *)
(* the environment (engine availability, the architecture declared by the  *)
(* model's configuration, the outcome of the model's load()) are chosen    *)
(* in Init; the actions are the consecutive blocks of load_model() and of  *)
(* the __main__ block, in program order, tracked by pc.                    *)
(*                                                                         *)
(* Collaborators that live outside __main__.py (Storage.download, the      *)
(* task table, the vllm helpers, the model classes) are modelled at their  *)
(* interface.  Storage.download and AutoConfig.from_pretrained are taken   *)
(* to succeed: the model reference, when present, is valid.                *)
(***************************************************************************)
EXTENDS Naturals, Sequences, FiniteSets

VARIABLES
    args,               \* the argparse namespace (mutated on the engine path)
    env,                \* the environment the run observes
    pc,                 \* position in the program
    model_id_or_path,   \* local of load_model
    engine_args,        \* local of load_model
    model_config,       \* local of load_model
    task,               \* local of load_model
    model,              \* the constructed runtime model, or NoModel
    error,              \* the exception in flight / handled, or NoError
    served,             \* the list handed to ModelServer().start, or NotStarted
    exit_status,        \* the status given to sys.exit, or NotExited
    log,                \* what logger.error wrote
    calls               \* collaborators called so far, in order

vars == <<args, env, pc, model_id_or_path, engine_args, model_config, task,
          model, error, served, exit_status, log, calls>>

-----------------------------------------------------------------------------
(* Python values *)

None == "<None>"

\* bool(x) of an optional string: None and "" are falsy.
Truthy(x) == x # None /\ x # ""

\* Python's `a or b`.
PyOr(a, b) == IF Truthy(a) THEN a ELSE b

\* str(pathlib.Path(s)) on the strings of the model: a trailing slash is
\* dropped, a repeated slash inside the string is collapsed to one, and the
\* empty string becomes ".".  The other strings are already normal.
PathNormalize(s) ==
    CASE s = "/mnt/models/"      -> "/mnt/models"
      [] s = "s3://bucket/model" -> "s3:/bucket/model"
      [] s = ""                  -> "."
      [] OTHER                   -> s

Path(s) == [type |-> "Path", value |-> PathNormalize(s)]

\* cast(str, x) is a no-op at run time: the value keeps its run-time type.
Cast(x) == IF x = None THEN [type |-> "NoneType", value |-> None]
                       ELSE [type |-> "str", value |-> x]

Str(loc) == loc.value

IsNone(loc) == loc.type = "NoneType"

-----------------------------------------------------------------------------
(* Collaborators *)

\* kserve.storage.Storage.download without out_dir: a local path is returned
\* as it is, a remote URI is fetched into a fresh temporary directory.
RemoteUris == {"s3://bucket/model"}
StorageDownload(uri) == IF uri \in RemoteUris THEN "/tmp/tmpmodel" ELSE uri

Backends == {"auto", "huggingface", "vllm"}

\* huggingfaceserver.task.MLTask, SUPPORTED_TASKS, is_generative_task
MLTask == {"table_question_answering", "question_answering",
           "token_classification", "sequence_classification", "fill_mask",
           "text_generation", "text2text_generation"}
SUPPORTED_TASKS == {"token_classification", "sequence_classification",
                    "fill_mask", "text_generation", "text2text_generation"}
GenerativeTasks == {"text_generation", "text2text_generation"}
is_generative_task(t) == t \in GenerativeTasks

\* Architectures a model configuration may declare.
Architectures == {"LlamaForCausalLM", "T5ForConditionalGeneration",
                  "BertForSequenceClassification", "BertForTokenClassification",
                  "BertForMaskedLM", "UnknownArchitecture"}

\* huggingfaceserver.task.infer_task_from_model_architecture: the task, or
\* None where the code raises because no family matches.
InferredTask(arch) ==
    CASE arch = "LlamaForCausalLM"              -> "text_generation"
      [] arch = "T5ForConditionalGeneration"    -> "text2text_generation"
      [] arch = "BertForSequenceClassification" -> "sequence_classification"
      [] arch = "BertForTokenClassification"    -> "token_classification"
      [] arch = "BertForMaskedLM"               -> "fill_mask"
      [] OTHER                                  -> None

\* huggingfaceserver.vllm.utils.infer_vllm_supported_from_model_architecture:
\* the engine's model class name, or None.
VllmSupportedArchitectures == {"LlamaForCausalLM"}
infer_vllm_supported_from_model_architecture(arch) ==
    IF arch \in VllmSupportedArchitectures THEN arch ELSE None

\* huggingfaceserver.vllm.utils.build_vllm_engine_args: the engine reads its
\* parameters from the attributes of the namespace.
build_vllm_engine_args(a) == [model |-> a.model, revision |-> a.revision]

\* PredictorConfig(host, protocol, use_ssl, timeout) from the namespace.
PredictorConfig(a) ==
    [predictor_host |-> a.predictor_host,
     predictor_protocol |-> a.predictor_protocol,
     predictor_use_ssl |-> a.predictor_use_ssl,
     predictor_request_timeout_seconds |-> a.predictor_request_timeout_seconds]

NoConfig == [predictor_host |-> None, predictor_protocol |-> None,
             predictor_use_ssl |-> FALSE,
             predictor_request_timeout_seconds |-> 0]

NoEngineArgs == [model |-> None, revision |-> None]

-----------------------------------------------------------------------------
(* Values of the state *)

NoModel == [class |-> "NoModel", task |-> None, location |-> None,
            engine_args |-> NoEngineArgs, predictor_config |-> NoConfig,
            ready |-> FALSE]
NoError == [type |-> "NoError", about |-> None, lists |-> {}]
NotStarted == [started |-> FALSE, models |-> <<>>]
NotExited == <<>>
NoLocation == [type |-> "unset", value |-> None]

\* What model.load() can do, as seen from its caller: raise, or return
\* having set ready, or return with ready still false (the case line 200
\* provides for).
LoadOutcomes == {"ready", "not_ready", "raises"}

ModelDirs == {None, "", "s3://bucket/model", "/mnt/models", "/mnt/models/"}
ModelIds == {None, "", "org/model"}
Revisions == {None, "v1"}
TaskNames == {None, ""} \cup MLTask \cup {"not_a_task"}

Init ==
    /\ \E md \in ModelDirs, mi \in ModelIds, rev \in Revisions,
          t \in TaskNames, b \in Backends :
          args = [model_dir |-> md, model_id |-> mi, model_revision |-> rev,
                  task |-> t, backend |-> b, model_name |-> "model",
                  predictor_host |-> "predictor.svc",
                  predictor_protocol |-> "v2",
                  predictor_use_ssl |-> TRUE,
                  predictor_request_timeout_seconds |-> 600,
                  model |-> None, revision |-> None]
    /\ \E av \in BOOLEAN, arch \in Architectures, lo \in LoadOutcomes :
          env = [vllm_available |-> av, architecture |-> arch,
                 load_outcome |-> lo]
    /\ pc = "resolve_location"
    /\ model_id_or_path = NoLocation
    /\ engine_args = NoEngineArgs
    /\ model_config = None
    /\ task = None
    /\ model = NoModel
    /\ error = NoError
    /\ served = NotStarted
    /\ exit_status = NotExited
    /\ log = <<>>
    /\ calls = <<>>

-----------------------------------------------------------------------------
(* load_model, block by block *)

Raise(e) == /\ error' = e
            /\ pc' = "except"

\* lines 114-118
ResolveLocation ==
    /\ pc = "resolve_location"
    /\ IF Truthy(args.model_dir)
         THEN /\ model_id_or_path' = Path(StorageDownload(args.model_dir))
              /\ calls' = Append(calls, "Storage.download")
         ELSE /\ model_id_or_path' = Cast(args.model_id)
              /\ calls' = calls
    /\ pc' = "check_reference"
    /\ UNCHANGED <<args, env, engine_args, model_config, task, model, error,
                   served, exit_status, log>>

\* Variant of MissingReference: the guard is dropped.
MissingReferenceUnchecked == FALSE

\* line 120
MissingReference == IsNone(model_id_or_path)

\* lines 120-121
CheckModelReference ==
    /\ pc = "check_reference"
    /\ IF MissingReference
         THEN Raise([type |-> "ValueError",
                     about |-> "You must provide a model_id or model_dir",
                     lists |-> {}])
         ELSE /\ pc' = "check_vllm"
              /\ error' = error
    /\ UNCHANGED <<args, env, model_id_or_path, engine_args, model_config,
                   task, model, served, exit_status, log, calls>>

\* lines 123-124: vllm_available() is called only when the backend is vllm
\* (short-circuit and).
\* Variant of VllmUnavailable: the availability probe is not negated.
VllmUnavailableInverted == args.backend = "vllm" /\ env.vllm_available

VllmUnavailable == args.backend = "vllm" /\ ~env.vllm_available
CheckVllmAvailable ==
    /\ pc = "check_vllm"
    /\ calls' = IF args.backend = "vllm"
                  THEN Append(calls, "vllm_available") ELSE calls
    /\ IF VllmUnavailable
         THEN Raise([type |-> "RuntimeError",
                     about |-> "Backend is set to 'vllm' but vLLM is not available",
                     lists |-> {}])
         ELSE /\ pc' = "select_backend"
              /\ error' = error
    /\ UNCHANGED <<args, env, model_id_or_path, engine_args, model_config,
                   task, model, served, exit_status, log>>

\* lines 126-130: the condition of the branch, with Python's short-circuit
\* evaluation.
\* Variant of BackendAllowsEngine: the requested backend is not consulted.
BackendAllowsEngineAlways == TRUE

BackendAllowsEngine == args.backend = "vllm" \/ args.backend = "auto"
\* Variant of UseVllm: the availability probe is left out of the condition.
UseVllmIgnoringAvailability ==
    /\ BackendAllowsEngine
    /\ infer_vllm_supported_from_model_architecture(env.architecture) # None

UseVllm ==
    /\ BackendAllowsEngine
    /\ env.vllm_available
    /\ infer_vllm_supported_from_model_architecture(env.architecture) # None
SelectBackendCalls ==
    IF ~BackendAllowsEngine THEN <<>>
    ELSE IF ~env.vllm_available THEN <<"vllm_available">>
    ELSE <<"vllm_available", "infer_vllm_supported_from_model_architecture">>
SelectBackend ==
    /\ pc = "select_backend"
    /\ calls' = calls \o SelectBackendCalls
    /\ pc' = IF UseVllm THEN "engine" ELSE "config"
    /\ UNCHANGED <<args, env, model_id_or_path, engine_args, model_config,
                   task, model, error, served, exit_status, log>>

\* line 133
EngineModelLocation == PyOr(args.model_dir, args.model_id)

\* lines 131-136
BuildVllmModel ==
    /\ pc = "engine"
    /\ args' = [args EXCEPT !.model = EngineModelLocation,
                            !.revision = args.model_revision]
    /\ engine_args' = build_vllm_engine_args(args')
    /\ model' = [class |-> "VLLMModel", task |-> None, location |-> None,
                 engine_args |-> engine_args',
                 predictor_config |-> NoConfig, ready |-> FALSE]
    /\ calls' = calls \o <<"build_vllm_engine_args", "VLLMModel">>
    /\ pc' = "load"
    /\ UNCHANGED <<env, model_id_or_path, model_config, task, error, served,
                   exit_status, log>>

\* lines 139-142
LoadModelConfig ==
    /\ pc = "config"
    /\ model_config' = env.architecture
    /\ calls' = Append(calls, "AutoConfig.from_pretrained")
    /\ pc' = "resolve_task"
    /\ UNCHANGED <<args, env, model_id_or_path, engine_args, task, model,
                   error, served, exit_status, log>>

\* lines 143-155
ExplicitTask == Truthy(args.task)
ExplicitTaskAccepted == args.task \in MLTask /\ args.task \in SUPPORTED_TASKS

\* line 145: MLTask[name] binds the local before the membership test of
\* line 146; an unknown name raises KeyError and leaves it unbound.
TaskAfterLookup == IF args.task \in MLTask THEN args.task ELSE task

ResolveTask ==
    /\ pc = "resolve_task"
    /\ IF ExplicitTask
         THEN IF ExplicitTaskAccepted
                THEN /\ task' = args.task
                     /\ pc' = "construct"
                     /\ error' = error
                     /\ calls' = calls
                ELSE /\ Raise([type |-> "ValueError",
                               about |-> "Unsupported task",
                               lists |-> SUPPORTED_TASKS])
                     /\ task' = TaskAfterLookup
                     /\ calls' = calls
         ELSE /\ calls' = Append(calls, "infer_task_from_model_architecture")
              /\ IF InferredTask(model_config) = None
                   THEN /\ Raise([type |-> "TaskInferenceError",
                                  about |-> "Task couldn't be inferred",
                                  lists |-> {}])
                        /\ task' = task
                   ELSE /\ task' = InferredTask(model_config)
                        /\ pc' = "construct"
                        /\ error' = error
    /\ UNCHANGED <<args, env, model_id_or_path, engine_args, model_config,
                   model, served, exit_status, log>>

\* lines 157-192
StandardModelClass(t) ==
    IF is_generative_task(t) THEN "HuggingfaceGenerativeModel"
                             ELSE "HuggingfaceEncoderModel"
StandardPredictorConfig(t) ==
    IF is_generative_task(t) THEN NoConfig ELSE PredictorConfig(args)
ConstructModel ==
    /\ pc = "construct"
    /\ model' = [class |-> StandardModelClass(task), task |-> task,
                 location |-> Str(model_id_or_path),
                 engine_args |-> NoEngineArgs,
                 predictor_config |-> StandardPredictorConfig(task),
                 ready |-> FALSE]
    /\ calls' = Append(calls, StandardModelClass(task))
    /\ pc' = "load"
    /\ UNCHANGED <<args, env, model_id_or_path, engine_args, model_config,
                   task, error, served, exit_status, log>>

\* The outcome of model.load() in this run.
LoadOutcome == env.load_outcome

\* lines 193-194
LoadModel ==
    /\ pc = "load"
    /\ calls' = Append(calls, "load")
    /\ IF LoadOutcome = "raises"
         THEN /\ Raise([type |-> "LoadError", about |-> "load failed",
                        lists |-> {}])
              /\ model' = model
         ELSE /\ model' = [model EXCEPT !.ready = (LoadOutcome = "ready")]
              /\ pc' = "start"
              /\ error' = error
    /\ UNCHANGED <<args, env, model_id_or_path, engine_args, model_config,
                   task, served, exit_status, log>>

-----------------------------------------------------------------------------
(* __main__ *)

\* line 200
ModelsToServe == IF model.ready THEN <<model>> ELSE <<>>
StartServer ==
    /\ pc = "start"
    /\ served' = [started |-> TRUE, models |-> ModelsToServe]
    /\ calls' = Append(calls, "ModelServer.start")
    /\ pc' = "serving"
    /\ UNCHANGED <<args, env, model_id_or_path, engine_args, model_config,
                   task, model, error, exit_status, log>>

\* line 205
ExitFailure == 1

\* lines 201-205
HandleException ==
    /\ pc = "except"
    /\ log' = Append(log, error)
    /\ exit_status' = <<ExitFailure>>
    /\ calls' = calls \o <<"logger.error", "sys.exit">>
    /\ pc' = "exited"
    /\ UNCHANGED <<args, env, model_id_or_path, engine_args, model_config,
                   task, model, error, served>>

Next ==
    \/ ResolveLocation
    \/ CheckModelReference
    \/ CheckVllmAvailable
    \/ SelectBackend
    \/ BuildVllmModel
    \/ LoadModelConfig
    \/ ResolveTask
    \/ ConstructModel
    \/ LoadModel
    \/ StartServer
    \/ HandleException

Spec == Init /\ [][Next]_vars

-----------------------------------------------------------------------------
(* Vocabulary of the properties *)

Called(c) == \E i \in 1..Len(calls) : calls[i] = c

Terminated == pc \in {"serving", "exited"}
Failed == pc \in {"except", "exited"}

StandardClasses == {"HuggingfaceGenerativeModel", "HuggingfaceEncoderModel"}
ModelClasses == StandardClasses \cup {"VLLMModel"}
Constructors == ModelClasses

\* What the run was given, stated on the inputs alone.
ReferenceAbsent == args.model_dir = None /\ args.model_id = None
ReferencePresent == Truthy(args.model_dir) \/ args.model_id # None
EngineCompatible == env.architecture \in VllmSupportedArchitectures
TaskGiven == args.task # None /\ args.task # ""
RequestedTask ==
    IF TaskGiven THEN args.task ELSE InferredTask(env.architecture)

EnginePathTaken == pc = "engine" \/ Called("build_vllm_engine_args")
StandardPathTaken == pc = "config" \/ Called("AutoConfig.from_pretrained")

\* Two values name the same location: a str is compared as it is, a Path
\* by its normalised form.
SameLocation(raw, loc) ==
    IF loc.type = "Path" THEN PathNormalize(raw) = Str(loc)
                         ELSE raw = Str(loc)

ErrMissingReference == "You must provide a model_id or model_dir"
ErrBackendUnavailable == "Backend is set to 'vllm' but vLLM is not available"
ErrUnsupportedTask == "Unsupported task"

-----------------------------------------------------------------------------
(* C1 *)

\* C1: with the vllm backend requested explicitly, no standard-backend
\* model is ever constructed, and a finished run has either constructed an
\* engine-backed model or ended in an error.
C1_ExplicitEngineNeverSubstituted ==
    args.backend = "vllm" =>
        /\ model.class \notin StandardClasses
        /\ Terminated => (model.class = "VLLMModel" \/ error # NoError)

(* C2 *)

\* C2: when the engine path is taken and the resolved task (explicit if
\* given, otherwise inferred from the architecture) is a supported
\* non-generative task, no engine-backed model is constructed and the run
\* fails with the incompatible-task/backend error.
C2_EngineOnlyForGenerativeTask ==
    (EnginePathTaken /\ RequestedTask \in SUPPORTED_TASKS \ GenerativeTasks) =>
        /\ model.class # "VLLMModel"
        /\ Terminated => error.type = "IncompatibleTaskBackendError"

(* C3 *)

\* C3: an explicit task name that is unrecognized or unsupported never
\* leads to a constructed model, and a run that got past the reference and
\* availability checks ends with the unsupported-task error listing the
\* supported task names, whichever backend was requested or selected.
C3_UnsupportedTaskAlwaysRejected ==
    (TaskGiven /\ args.task \notin SUPPORTED_TASKS) =>
        /\ model = NoModel
        /\ (Terminated /\ ReferencePresent
                /\ ~(args.backend = "vllm" /\ ~env.vllm_available)) =>
              /\ error.about = ErrUnsupportedTask
              /\ error.lists = SUPPORTED_TASKS
              /\ ~served.started

(* C4 *)

\* C4: a run ends in exactly one of two outcomes: the server is started
\* with exactly one constructed, loaded model and the process has not
\* exited, or the error is logged, the exit status is non-zero and the
\* server was never started; every unfinished run can take a step.
C4_NoPartialSuccess ==
    /\ served.started =>
          /\ Len(served.models) = 1
          /\ served.models[1].class \in ModelClasses
          /\ served.models[1].ready
          /\ exit_status = NotExited
          /\ log = <<>>
    /\ exit_status # NotExited =>
          /\ exit_status[1] # 0
          /\ error # NoError
          /\ log = <<error>>
          /\ ~served.started
    /\ Terminated => (served.started # (exit_status # NotExited))
    /\ ~Terminated => ENABLED Next

(* C5 *)

\* C5: for a supported task name given explicitly, every constructed model
\* is bound to exactly that task, whatever the architecture; and task
\* inference from the architecture is called only when no task was given.
C5_ExplicitTaskWins ==
    /\ (TaskGiven /\ args.task \in SUPPORTED_TASKS /\ model # NoModel) =>
          model.task = args.task
    /\ Called("infer_task_from_model_architecture") => ~TaskGiven

(* C6 *)

\* C6: with the vllm backend requested, a model reference present and the
\* engine unavailable, the run never gets past the availability check: it
\* fails with the backend-unavailable error, constructs no model, and
\* calls neither engine-compatibility inference nor configuration loading.
C6_UnavailableEngineIsHardError ==
    (args.backend = "vllm" /\ ReferencePresent /\ ~env.vllm_available) =>
        /\ pc \in {"resolve_location", "check_reference", "check_vllm",
                   "except", "exited"}
        /\ Failed => error.about = ErrBackendUnavailable
        /\ model = NoModel
        /\ ~Called("infer_vllm_supported_from_model_architecture")
        /\ ~Called("AutoConfig.from_pretrained")
        /\ \A c \in Constructors : ~Called(c)
        /\ ~served.started

\* C6 witness: such a run has exited on the backend-unavailable error, for
\* an engine-compatible architecture and an explicit task.
C6_Witness ==
    /\ args.backend = "vllm" /\ ReferencePresent /\ ~env.vllm_available
    /\ EngineCompatible /\ TaskGiven
    /\ pc = "exited"
    /\ error.about = ErrBackendUnavailable

(* C7 *)

\* C7: with the automatic backend, once a path is taken it is the engine
\* path exactly when the engine is available and the architecture is
\* engine-compatible, and the standard path otherwise; a run with a model
\* reference always reaches a path, and no backend-unavailable error occurs.
C7_AutoDegradesGracefully ==
    args.backend = "auto" =>
        /\ EnginePathTaken => (env.vllm_available /\ EngineCompatible)
        /\ StandardPathTaken => ~(env.vllm_available /\ EngineCompatible)
        /\ ~(EnginePathTaken /\ StandardPathTaken)
        /\ (Terminated /\ ReferencePresent) =>
              (EnginePathTaken \/ StandardPathTaken)
        /\ error.about # ErrBackendUnavailable

\* C7 witness: automatic backend, engine available, architecture not
\* engine-compatible: the run serves a standard model without error.
C7_Witness ==
    /\ args.backend = "auto"
    /\ env.vllm_available /\ ~EngineCompatible
    /\ pc = "serving"
    /\ model.class \in StandardClasses
    /\ error = NoError

(* C8 *)

\* C8: with the standard backend, the engine path is never taken; a
\* constructed model is bound to the resolved task, is the generative model
\* when that task is generative, and otherwise the encoder model carrying
\* the predictor host, protocol, TLS flag and request timeout of the
\* configuration.
C8_StandardNeverEngine ==
    args.backend = "huggingface" =>
        /\ ~EnginePathTaken
        /\ model.class # "VLLMModel"
        /\ model # NoModel =>
              /\ model.task = RequestedTask
              /\ model.task \in GenerativeTasks =>
                    model.class = "HuggingfaceGenerativeModel"
              /\ model.task \notin GenerativeTasks =>
                    /\ model.class = "HuggingfaceEncoderModel"
                    /\ model.predictor_config.predictor_host
                          = args.predictor_host
                    /\ model.predictor_config.predictor_protocol
                          = args.predictor_protocol
                    /\ model.predictor_config.predictor_use_ssl
                          = args.predictor_use_ssl
                    /\ model.predictor_config.predictor_request_timeout_seconds
                          = args.predictor_request_timeout_seconds

\* C8 witness: standard backend with the engine available and an
\* engine-compatible architecture, serving an encoder model for an explicit
\* non-generative task.
C8_Witness ==
    /\ args.backend = "huggingface"
    /\ env.vllm_available /\ EngineCompatible
    /\ pc = "serving"
    /\ model.class = "HuggingfaceEncoderModel"
    /\ model.task = "sequence_classification"
    /\ model.predictor_config.predictor_host = "predictor.svc"

(* C9 *)

\* C9: with neither a model directory nor a model identifier, the run
\* fails with the missing-reference error having called no collaborator:
\* no download, no configuration loading, no availability probe, no
\* compatibility inference, no constructor.
C9_MissingReferenceFailsFirst ==
    ReferenceAbsent =>
        /\ pc \in {"resolve_location", "check_reference", "except", "exited"}
        /\ Failed => error.about = ErrMissingReference
        /\ model = NoModel
        /\ \A i \in 1..Len(calls) : calls[i] \in {"logger.error", "sys.exit"}

\* C9 witness: no reference, vllm requested and unavailable, a bad task
\* name: the run has exited on the missing-reference error.
C9_Witness ==
    /\ ReferenceAbsent
    /\ args.backend = "vllm" /\ ~env.vllm_available
    /\ args.task = "not_a_task"
    /\ pc = "exited"
    /\ error.about = ErrMissingReference

(* C10 *)

\* C10: the model location in the engine's construction parameters is the
\* resolved location, the value compatibility inference was given (the
\* same identifier, or the same path up to pathlib's normalisation), and the
\* revision there is the configured model revision.
C10_EngineGetsResolvedLocation ==
    model.class = "VLLMModel" =>
        /\ SameLocation(model.engine_args.model, model_id_or_path)
        /\ model.engine_args.revision = args.model_revision

====
